---- MODULE Spec2Model ----
(***************************************************************************)
(* Model of nasdaq_alert.py: the scheduled drawdown monitor.               *)
(*                                                                         *)
(* One run of main() loads state.json, walks WATCHLIST, evaluates every    *)
(* threshold of every symbol that yields data, saves state.json, writes    *)
(* docs/index.html, sends the crossing alert and then the daily digest.    *)
(*                                                                         *)
(* Python floats are IEEE-754 binary64.  They are modelled exactly: a      *)
(* float is a record [m, e] standing for m * 2^e, the significand m being  *)
(* a little-endian sequence of bits (TLC's integers are too narrow for 53  *)
(* bits), and every arithmetic result is rounded to 53 significant bits,   *)
(* ties to even.  Threshold factors are written in hundredths, as the      *)
(* decimal literals of WATCHLIST are (85 stands for the literal 0.85).     *)
(***************************************************************************)
EXTENDS Integers, Sequences, FiniteSets, TLC

\* ------------------------------------------------------------------------
\* Natural numbers as little-endian bit sequences (<<>> is zero).  The
\* carry chains are evaluated by halving the range, which keeps the
\* evaluation shallow.
\* ------------------------------------------------------------------------

Bit(a, i) == IF i <= Len(a) THEN a[i] ELSE 0

\* a without its leading (high-order) zeros
BTrim(a) ==
  LET ones == {i \in 1..Len(a) : a[i] = 1}
  IN  IF ones = {} THEN <<>>
      ELSE SubSeq(a, 1, CHOOSE i \in ones : \A j \in ones : j <= i)

RECURSIVE BFromInt(_)
BFromInt(n) == IF n = 0 THEN <<>> ELSE <<n % 2>> \o BFromInt(n \div 2)

RECURSIVE BToInt(_)
BToInt(a) == IF a = <<>> THEN 0 ELSE a[1] + 2 * BToInt(Tail(a))

BShl(a, n) == IF a = <<>> THEN a ELSE [i \in 1..n |-> 0] \o a

\* bits lo..hi of a + b with carry c coming in, and the carry going out
RECURSIVE BAddRange(_, _, _, _, _)
BAddRange(a, b, lo, hi, c) ==
  IF lo = hi
    THEN LET t == Bit(a, lo) + Bit(b, lo) + c
         IN  [s |-> <<t % 2>>, c |-> t \div 2]
    ELSE LET mid == (lo + hi) \div 2
             L   == BAddRange(a, b, lo, mid, c)
             R   == BAddRange(a, b, mid + 1, hi, L.c)
         IN  [s |-> L.s \o R.s, c |-> R.c]

BAdd(a, b) ==
  LET n == IF Len(a) < Len(b) THEN Len(b) ELSE Len(a)
  IN  IF n = 0 THEN <<>>
      ELSE LET r == BAddRange(a, b, 1, n, 0)
           IN  IF r.c = 1 THEN Append(r.s, 1) ELSE r.s

\* bits lo..hi of a - b with borrow c coming in, and the borrow going out
RECURSIVE BSubRange(_, _, _, _, _)
BSubRange(a, b, lo, hi, c) ==
  IF lo = hi
    THEN LET d == Bit(a, lo) - Bit(b, lo) - c
         IN  [s |-> <<d % 2>>, c |-> IF d < 0 THEN 1 ELSE 0]
    ELSE LET mid == (lo + hi) \div 2
             L   == BSubRange(a, b, lo, mid, c)
             R   == BSubRange(a, b, mid + 1, hi, L.c)
         IN  [s |-> L.s \o R.s, c |-> R.c]

\* a - b for a >= b
BSub(a, b) ==
  IF a = <<>> THEN <<>> ELSE BTrim(BSubRange(a, b, 1, Len(a), 0).s)

\* a * b, by shift and add over the bits of b
RECURSIVE BMul(_, _)
BMul(a, b) ==
  IF b = <<>> \/ a = <<>>
    THEN <<>>
    ELSE LET rest == BShl(BMul(a, Tail(b)), 1)
         IN  IF b[1] = 1 THEN BAdd(a, rest) ELSE rest

\* long division of bits hi..lo of a by the small integer c, the remainder
\* rem coming in from the bits above hi; the quotient's bits come out high
\* bit first, in the order they are produced
RECURSIVE BDivRange(_, _, _, _, _)
BDivRange(a, c, hi, lo, rem) ==
  IF hi = lo
    THEN LET r2 == 2 * rem + a[lo]
             b  == IF r2 >= c THEN 1 ELSE 0
         IN  [q |-> <<b>>, r |-> r2 - b * c]
    ELSE LET mid == (lo + hi) \div 2
             H   == BDivRange(a, c, hi, mid + 1, rem)
             L   == BDivRange(a, c, mid, lo, H.r)
         IN  [q |-> H.q \o L.q, r |-> L.r]

Reverse(s) == [i \in 1..Len(s) |-> s[Len(s) + 1 - i]]

BDivSmall(a, c) ==
  IF a = <<>> THEN [q |-> <<>>, r |-> 0]
  ELSE LET d == BDivRange(a, c, Len(a), 1, 0)
       IN  [q |-> BTrim(Reverse(d.q)), r |-> d.r]

\* a <= b, both without leading zeros
BLe(a, b) ==
  IF Len(a) # Len(b) THEN Len(a) < Len(b)
  ELSE ~ \E i \in 1..Len(a) :
           /\ a[i] > b[i]
           /\ \A k \in (i + 1)..Len(a) : a[k] = b[k]

\* ------------------------------------------------------------------------
\* IEEE-754 binary64 values (non-negative, normal range).
\* ------------------------------------------------------------------------

\* width of the significand of a Python float
MantBits == 53

\* the canonical record of m * 2^e: m odd, or zero
Canon(m, e) ==
  LET ones == {i \in 1..Len(m) : m[i] = 1}
  IN  IF ones = {} THEN [m |-> <<>>, e |-> 0]
      ELSE LET lo == CHOOSE i \in ones : \A j \in ones : i <= j
           IN  [m |-> SubSeq(m, lo, Len(m)), e |-> e + lo - 1]

\* n * 2^e (plus a non-zero amount below the last bit when sticky) rounded
\* to the nearest float, ties to even
RoundFloat(n, e, sticky) ==
  LET L == Len(n)
      s == L - MantBits
  IN  IF s <= 0
        THEN Canon(n, e)
        ELSE LET q     == SubSeq(n, s + 1, L)
                 guard == n[s]
                 rest  == sticky \/ \E i \in 1..(s - 1) : n[i] = 1
                 up    == guard = 1 /\ (rest \/ q[1] = 1)
             IN  Canon(IF up THEN BAdd(q, <<1>>) ELSE q, e + s)

\* float(n) for a whole number n
FloatOfInt(n) == Canon(BFromInt(n), 0)

\* the float a decimal literal of c hundredths denotes (0.85 for c = 85):
\* c / 100 correctly rounded; the quotient is taken to 64 binary places, far
\* more than MantBits, and the remainder is the sticky bit
FloatOfCents(c) ==
  LET d == BDivSmall(BShl(BFromInt(c), 64), 100)
  IN  RoundFloat(d.q, 0 - 64, d.r # 0)

\* x * y
FMul(x, y) ==
  RoundFloat(IF Len(x.m) < Len(y.m) THEN BMul(y.m, x.m) ELSE BMul(x.m, y.m),
             x.e + y.e, FALSE)

\* x - y for x >= y
FSub(x, y) ==
  LET e0 == IF x.e < y.e THEN x.e ELSE y.e
  IN  RoundFloat(BSub(BShl(x.m, x.e - e0), BShl(y.m, y.e - e0)), e0, FALSE)

\* x <= y
FLe(x, y) ==
  LET e0 == IF x.e < y.e THEN x.e ELSE y.e
  IN  BLe(BShl(x.m, x.e - e0), BShl(y.m, y.e - e0))

\* int(x): truncation towards zero
FTrunc(x) ==
  IF x.e >= 0 THEN BToInt(BShl(x.m, x.e))
  ELSE IF 0 - x.e >= Len(x.m) THEN 0
  ELSE BToInt(SubSeq(x.m, 1 - x.e, Len(x.m)))

\* ------------------------------------------------------------------------
\* Configuration.
\* ------------------------------------------------------------------------

\* WATCHLIST; a threshold factor is given in hundredths (85 is 0.85)
WATCHLIST ==
  << [symbol |-> "^IXIC", name |-> "Nasdaq Composite (IXIC)",
      thresholds |-> <<85, 80, 75, 70>>],
     [symbol |-> "^GSPC", name |-> "S&P 500 (SPX)",
      thresholds |-> <<85, 80, 75, 70>>],
     [symbol |-> "TSLA", name |-> "Tesla, Inc. (TSLA)",
      thresholds |-> <<85, 80, 75, 70>>],
     [symbol |-> "ONDS", name |-> "Tesla, Inc. (TSLA)",
      thresholds |-> <<70>>] >>

Symbols == {WATCHLIST[k].symbol : k \in 1..Len(WATCHLIST)}

\* the factors that occur in WATCHLIST
ConfiguredFactors ==
  UNION {{WATCHLIST[k].thresholds[j] : j \in 1..Len(WATCHLIST[k].thresholds)} :
           k \in 1..Len(WATCHLIST)}

\* ------------------------------------------------------------------------
\* Bounds of the inputs.
\* ------------------------------------------------------------------------

\* closing prices are whole numbers 1..MaxPrice, and the prices of the
\* worked examples
MaxPrice == 4

\* longest close history handed to gather_ticker_status on its own
MaxSeriesLen == 2

\* longest threshold list handed to gather_ticker_status on its own
MaxFactors == 2

\* the closes gather_ticker_status is tried on, on its own
GatherPrices == (1..MaxPrice) \cup {84, 85, 100}

Prices == GatherPrices \cup {70, 90}

\* factors gather_ticker_status is tried on: the configured ones and 0.50
Factors == ConfiguredFactors \cup {50}

\* the close histories the provider returns to a run of main(): an all-time
\* high of 100 followed by the last close, which is above every level (90)
\* or at or below every level (70, the lowest level itself); where the
\* episodes are not recorded, the first watchlist entry also gets a close
\* between its levels (84)
RunSeries(symbol, recorded) ==
  {<<100, 90>>, <<100, 70>>}
    \cup (IF symbol = WATCHLIST[1].symbol /\ ~recorded
            THEN {<<100, 84>>} ELSE {})

SeqsUpTo(S, n) == UNION {[1..k -> S] : k \in 0..n}

\* ------------------------------------------------------------------------
\* gather_ticker_status
\* ------------------------------------------------------------------------

RECURSIVE SeqMax(_)
SeqMax(s) ==
  IF Len(s) = 1 THEN s[1]
  ELSE LET m == SeqMax(Tail(s)) IN IF s[1] > m THEN s[1] ELSE m

\* label = f"{int((1 - f) * 100)}%"
Label(f) ==
  ToString(FTrunc(FMul(FSub(FloatOfInt(1), FloatOfCents(f)), FloatOfInt(100))))
    \o "%"

\* level = ath_close * f
Level(ath_close, f) == FMul(FloatOfInt(ath_close), FloatOfCents(f))

\* the comparison, were it strict: a close equal to the level is no hit
HitStrict(last_close, level) ==
  FLe(FloatOfInt(last_close), level) /\ FloatOfInt(last_close) # level

\* hit = last_close <= level
Hit(last_close, level) == FLe(FloatOfInt(last_close), level)

\* the three computations above, tabulated over the inputs of the model;
\* t @@ t is t, enumerated (TLC would otherwise evaluate an entry at each use)
Tabulated(t) == t @@ t

LabelTab == Tabulated([f \in Factors |-> Label(f)])
LevelTab == Tabulated([a \in Prices, f \in Factors |-> Level(a, f)])
HitTab ==
  Tabulated([l \in Prices, a \in Prices, f \in Factors |-> Hit(l, LevelTab[a, f])])

\* Python's None, as gather_ticker_status returns it
None == [none |-> TRUE]

\* df is the history of daily closes the download returned (<<>> is an empty
\* frame); the result is None or the status record
gather_ticker_status(df, thresholds) ==
  IF df = <<>> THEN None
  ELSE LET last_close == df[Len(df)]
           ath_close  == SeqMax(df)
       IN  [last_close |-> last_close,
            ath_close  |-> ath_close,
            threshold_rows |->
              [k \in 1..Len(thresholds) |->
                 [label  |-> LabelTab[thresholds[k]],
                  factor |-> thresholds[k],
                  level  |-> LevelTab[ath_close, thresholds[k]],
                  hit    |-> HitTab[last_close, ath_close, thresholds[k]]]]]

\* ------------------------------------------------------------------------
\* State.
\* ------------------------------------------------------------------------

VARIABLES
  stateFile,      \* contents of state.json ({} when the file does not exist)
  dashboard,      \* docs/index.html
  outbox,         \* emails the SMTP server accepted during the current run
  pc,             \* where the current run of main() stands
  idx,            \* index in WATCHLIST of the item the for loop is at
  state,          \* main(): state
  results,        \* main(): results
  crossed_today,  \* main(): crossed_today
  err,            \* what ended the run: "none", or the exception raised
  digest,         \* the daily digest in this run: "none", "sent", "failed"
  warned,         \* the symbols of the "[WARN] No data" lines this run printed
  tracking,       \* history: whether the episodes are being recorded
  episode,        \* history: <<symbol, label>> -> alerts accepted so far
                  \*   in the crossing episode the pair is in
  closed,         \* history: <<symbol, label, alerts>> of the episodes that
                  \*   ended in the current run
  begun,          \* history: the pairs whose episode began in the current
                  \*   run
  g_in,           \* arguments of a stand-alone call of gather_ticker_status
  g_out           \* its result (Pending before the call)

runVars  == <<stateFile, dashboard, outbox, pc, idx, state, results,
              crossed_today, err, digest, warned>>
histVars == <<tracking, episode, closed, begun>>
gVars    == <<g_in, g_out>>
vars     == <<runVars, histVars, gVars>>

\* a Python dict is a function; {} is the function of empty domain
EmptyDict == [k \in {} |-> "armed"]

\* d.get(k, default)
Get(d, k, default) == IF k \in DOMAIN d THEN d[k] ELSE default

\* d[k] = v
Put(d, k, v) == [x \in DOMAIN d \cup {k} |-> IF x = k THEN v ELSE d[x]]

\* state.json before the first run: missing, or left by runs under an
\* earlier watchlist of the first symbol (the deeper threshold alerted, the
\* shallower one added since)
InitialFiles ==
  {EmptyDict,
   Put(EmptyDict, WATCHLIST[1].symbol,
       Put(Put(EmptyDict, LabelTab[85], "armed"), LabelTab[80], "sent"))}

\* ------------------------------------------------------------------------
\* main(): the crossing logic of one watchlist item (lines 171-186)
\* ------------------------------------------------------------------------

\* if hit and prev != "sent"
Fires(hit, prev) == hit /\ prev # "sent"

\* the reset, were it left out: a label once "sent" stays "sent"
ResetsNever(hit, prev) == FALSE

\* if not hit and prev == "sent"
Resets(hit, prev) == ~hit /\ prev = "sent"

\* the for loop over status["threshold_rows"], from row k on
RECURSIVE CrossingLogic(_, _, _, _, _)
CrossingLogic(item, rows, k, bucket, crossed) ==
  IF k > Len(rows)
    THEN [bucket |-> bucket, crossed |-> crossed]
    ELSE LET tr   == rows[k]
             prev == Get(bucket, tr.label, "armed")
             ev   == [symbol |-> item.symbol, name |-> item.name,
                      label |-> tr.label, level |-> tr.level]
             b1   == IF Fires(tr.hit, prev)
                       THEN Put(bucket, tr.label, "sent") ELSE bucket
             c1   == IF Fires(tr.hit, prev) THEN Append(crossed, ev) ELSE crossed
             b2   == IF Resets(tr.hit, prev)
                       THEN Put(b1, tr.label, "armed") ELSE b1
         IN  CrossingLogic(item, rows, k + 1, b2, c1)

\* ------------------------------------------------------------------------
\* compose_dashboard_html, compose_email, the crossing alert
\* ------------------------------------------------------------------------

\* the page: one section per result, one list item per threshold row
compose_dashboard_html(res) ==
  [k \in 1..Len(res) |->
     [name |-> res[k].name, symbol |-> res[k].symbol,
      last_close |-> res[k].status.last_close,
      ath_close  |-> res[k].status.ath_close,
      items |-> [j \in 1..Len(res[k].status.threshold_rows) |->
                   [label |-> res[k].status.threshold_rows[j].label,
                    level |-> res[k].status.threshold_rows[j].level,
                    triggered |-> res[k].status.threshold_rows[j].hit]]]]

\* the daily digest: the status lines of every result, then the crossings
compose_email(res, crossed) ==
  [kind |-> "digest",
   lines |-> compose_dashboard_html(res),
   crossed |-> [k \in 1..Len(crossed) |->
                  [name |-> crossed[k].name, symbol |-> crossed[k].symbol,
                   label |-> crossed[k].label, level |-> crossed[k].level]]]

\* the crossing alert: subject and body list every crossing
AlertEmail(crossed) ==
  [kind |-> "alert",
   subject |-> [k \in 1..Len(crossed) |->
                  [name |-> crossed[k].name, label |-> crossed[k].label]],
   body |-> [k \in 1..Len(crossed) |->
               [name |-> crossed[k].name, symbol |-> crossed[k].symbol,
                label |-> crossed[k].label, level |-> crossed[k].level]]]

\* docs/index.html: missing, left by an earlier run, or written by this run
NoPage == [by |-> "nobody", html |-> <<>>]
StalePage == [by |-> "an earlier run", html |-> <<>>]
Page(html) == [by |-> "this run", html |-> html]

\* the result of a call of gather_ticker_status that has not been made
Pending == [pending |-> TRUE]

\* ------------------------------------------------------------------------
\* History of the crossing episodes.  A pair (symbol, label) is in an
\* episode from the run that evaluates its threshold as hit to the run that
\* evaluates it as not hit; episode[<<symbol, label>>] is the number of
\* crossing alerts naming the pair that the mail server accepted so far in
\* the episode the pair is in.
\* ------------------------------------------------------------------------

Pair(symbol, tr) == <<symbol, tr.label>>

HitRows(rows) == {k \in 1..Len(rows) : rows[k].hit}

MissRows(rows) == {k \in 1..Len(rows) : ~rows[k].hit}

\* the history after the rows of one symbol were evaluated
EpisodeAfterRows(ep, symbol, rows) ==
  LET hitP  == {Pair(symbol, rows[k]) : k \in HitRows(rows)}
      missP == {Pair(symbol, rows[k]) : k \in MissRows(rows)}
  IN  [p \in (DOMAIN ep \cup hitP) \ missP |->
         IF p \in DOMAIN ep THEN ep[p] ELSE 0]

\* the episodes the rows end, with the alerts each got
ClosedByRows(ep, symbol, rows) ==
  {<<symbol, rows[k].label, ep[Pair(symbol, rows[k])]>> :
     k \in {j \in MissRows(rows) : Pair(symbol, rows[j]) \in DOMAIN ep}}

\* the episodes the rows begin
BegunByRows(ep, symbol, rows) ==
  {Pair(symbol, rows[k]) :
     k \in {j \in HitRows(rows) : Pair(symbol, rows[j]) \notin DOMAIN ep}}

\* the history after the alert naming the crossings was accepted
EpisodeAfterAlert(ep, crossed) ==
  LET named == {<<crossed[k].symbol, crossed[k].label>> : k \in 1..Len(crossed)}
  IN  [p \in DOMAIN ep |-> IF p \in named THEN ep[p] + 1 ELSE ep[p]]

\* ------------------------------------------------------------------------
\* Initial state: no run has started.
\* ------------------------------------------------------------------------

Init ==
  /\ stateFile \in InitialFiles
  /\ dashboard = NoPage
  /\ outbox = <<>>
  /\ pc = "idle"
  /\ idx = 1
  /\ state = EmptyDict
  /\ results = <<>>
  /\ crossed_today = <<>>
  /\ err = "none"
  /\ digest = "none"
  /\ warned = {}
  /\ tracking = FALSE
  /\ episode = EmptyDict
  /\ closed = {}
  /\ begun = {}
  /\ g_in = [df |-> <<>>, thresholds |-> <<>>]
  /\ g_out = Pending

\* ------------------------------------------------------------------------
\* main(), step by step
\* ------------------------------------------------------------------------

\* the scheduler starts a run once the previous one has ended:
\* state = load_state(); results = []; crossed_today = []
Start ==
  /\ pc \in {"idle", "done", "aborted"}
  /\ state' = stateFile
  /\ results' = <<>>
  /\ crossed_today' = <<>>
  /\ idx' = 1
  /\ pc' = "loop"
  /\ outbox' = <<>>
  /\ err' = "none"
  /\ digest' = "none"
  /\ warned' = {}
  /\ dashboard' = IF dashboard = NoPage THEN NoPage ELSE StalePage
  /\ closed' = {}
  /\ begun' = {}
  /\ UNCHANGED <<stateFile, tracking, episode, gVars>>

\* where the for loop goes after item j - 1
LoopNext(j) == IF j > Len(WATCHLIST) THEN "save" ELSE "loop"

\* yf.download raises inside gather_ticker_status: nothing in main() catches
\* it, the process ends and its memory is gone
FetchRaises ==
  /\ pc = "loop"
  /\ pc' = "aborted"
  /\ err' = "fetch"
  /\ state' = EmptyDict
  /\ results' = <<>>
  /\ crossed_today' = <<>>
  /\ UNCHANGED <<stateFile, dashboard, outbox, idx, digest, warned, histVars,
                 gVars>>

\* the None branch, were it to end the loop (break for continue)
NoDataBreaks ==
  /\ pc = "loop"
  /\ gather_ticker_status(<<>>, WATCHLIST[idx].thresholds) = None
  /\ warned' = warned \cup {WATCHLIST[idx].symbol}
  /\ idx' = idx + 1
  /\ pc' = "save"
  /\ UNCHANGED <<stateFile, dashboard, outbox, state, results, crossed_today,
                 err, digest, histVars, gVars>>

\* the None branch, were it to store the empty bucket for the symbol
NoDataForgets ==
  /\ pc = "loop"
  /\ gather_ticker_status(<<>>, WATCHLIST[idx].thresholds) = None
  /\ warned' = warned \cup {WATCHLIST[idx].symbol}
  /\ state' = Put(state, WATCHLIST[idx].symbol, EmptyDict)
  /\ idx' = idx + 1
  /\ pc' = LoopNext(idx + 1)
  /\ UNCHANGED <<stateFile, dashboard, outbox, results, crossed_today,
                 err, digest, histVars, gVars>>

\* gather_ticker_status returns None (df.empty): warn and continue
NoData ==
  /\ pc = "loop"
  /\ gather_ticker_status(<<>>, WATCHLIST[idx].thresholds) = None
  /\ warned' = warned \cup {WATCHLIST[idx].symbol}
  /\ idx' = idx + 1
  /\ pc' = LoopNext(idx + 1)
  /\ UNCHANGED <<stateFile, dashboard, outbox, state, results, crossed_today,
                 err, digest, histVars, gVars>>

\* gather_ticker_status returns a status: lines 171-187
Evaluate ==
  /\ pc = "loop"
  /\ \E df \in RunSeries(WATCHLIST[idx].symbol, tracking) :
       LET item   == WATCHLIST[idx]
           status == gather_ticker_status(df, item.thresholds)
           r      == CrossingLogic(item, status.threshold_rows, 1,
                                   Get(state, item.symbol, EmptyDict),
                                   crossed_today)
       IN  /\ status # None
           /\ state' = Put(state, item.symbol, r.bucket)
           /\ crossed_today' = r.crossed
           /\ results' = Append(results, [symbol |-> item.symbol,
                                          name |-> item.name,
                                          status |-> status])
           /\ IF tracking
                THEN LET rows == status.threshold_rows
                     IN  /\ episode' = EpisodeAfterRows(episode, item.symbol, rows)
                         /\ closed' = closed \cup ClosedByRows(episode, item.symbol, rows)
                         /\ begun' = begun \cup BegunByRows(episode, item.symbol, rows)
                ELSE UNCHANGED <<episode, closed, begun>>
  /\ idx' = idx + 1
  /\ pc' = LoopNext(idx + 1)
  /\ UNCHANGED <<stateFile, dashboard, outbox, err, digest, warned, tracking,
                 gVars>>

\* save_state(state)
SaveState ==
  /\ pc = "save"
  /\ stateFile' = state
  /\ pc' = "dashboard"
  /\ UNCHANGED <<dashboard, outbox, idx, state, results, crossed_today, err,
                 digest, warned, histVars, gVars>>

\* the test, were it left out: the alert is sent in every run
AlertAlways(crossed) == TRUE

\* if crossed_today:
AlertDue(crossed) == crossed # <<>>

\* html = compose_dashboard_html(results); write docs/index.html;
\* then "if crossed_today:" decides whether the alert is sent
WriteDashboard ==
  /\ pc = "dashboard"
  /\ dashboard' = Page(compose_dashboard_html(results))
  /\ pc' = IF AlertDue(crossed_today) THEN "alert" ELSE "digest"
  /\ UNCHANGED <<stateFile, outbox, idx, state, results, crossed_today, err,
                 digest, warned, histVars, gVars>>

\* send_email(subject, body) of the crossing alert returns
SendAlertOk ==
  /\ pc = "alert"
  /\ outbox' = Append(outbox, AlertEmail(crossed_today))
  /\ episode' = IF tracking THEN EpisodeAfterAlert(episode, crossed_today)
                             ELSE episode
  /\ pc' = "digest"
  /\ UNCHANGED <<stateFile, dashboard, idx, state, results, crossed_today, err,
                 digest, warned, tracking, closed, begun, gVars>>

\* send_email of the crossing alert raises (a missing secret, the SMTP
\* session failing): nothing catches it, the process ends
SendAlertRaises ==
  /\ pc = "alert"
  /\ pc' = "aborted"
  /\ err' = "alert"
  /\ state' = EmptyDict
  /\ results' = <<>>
  /\ crossed_today' = <<>>
  /\ UNCHANGED <<stateFile, dashboard, outbox, idx, digest, warned, histVars,
                 gVars>>

\* the daily digest is composed and accepted
SendDigestOk ==
  /\ pc = "digest"
  /\ outbox' = Append(outbox, compose_email(results, crossed_today))
  /\ digest' = "sent"
  /\ pc' = "done"
  /\ UNCHANGED <<stateFile, dashboard, idx, state, results, crossed_today, err,
                 warned, histVars, gVars>>

\* the digest's exception, were it not caught: the process ends
SendDigestPropagates ==
  /\ pc = "digest"
  /\ digest' = "failed"
  /\ pc' = "aborted"
  /\ err' = "digest"
  /\ state' = EmptyDict
  /\ results' = <<>>
  /\ crossed_today' = <<>>
  /\ UNCHANGED <<stateFile, dashboard, outbox, idx, warned, histVars, gVars>>

\* composing or sending the digest raises: except Exception logs it
SendDigestRaises ==
  /\ pc = "digest"
  /\ digest' = "failed"
  /\ pc' = "done"
  /\ UNCHANGED <<stateFile, dashboard, outbox, idx, state, results,
                 crossed_today, err, warned, histVars, gVars>>

Next ==
  \/ Start
  \/ FetchRaises
  \/ NoData
  \/ Evaluate
  \/ SaveState
  \/ WriteDashboard
  \/ SendAlertOk
  \/ SendAlertRaises
  \/ SendDigestOk
  \/ SendDigestRaises

Spec == Init /\ [][Next]_vars

\* the same runs from a missing state.json, with the history of the
\* crossing episodes recorded
InitHist ==
  /\ stateFile = EmptyDict
  /\ dashboard = NoPage
  /\ outbox = <<>>
  /\ pc = "idle"
  /\ idx = 1
  /\ state = EmptyDict
  /\ results = <<>>
  /\ crossed_today = <<>>
  /\ err = "none"
  /\ digest = "none"
  /\ warned = {}
  /\ tracking = TRUE
  /\ episode = EmptyDict
  /\ closed = {}
  /\ begun = {}
  /\ g_in = [df |-> <<>>, thresholds |-> <<>>]
  /\ g_out = Pending

SpecHist == InitHist /\ [][Next]_vars

\* the recorded runs in which every download returns
NextFetchOk ==
  \/ Start
  \/ NoData
  \/ Evaluate
  \/ SaveState
  \/ WriteDashboard
  \/ SendAlertOk
  \/ SendAlertRaises
  \/ SendDigestOk
  \/ SendDigestRaises

SpecHistFetchOk == InitHist /\ [][NextFetchOk]_vars

\* ------------------------------------------------------------------------
\* gather_ticker_status on its own: the arguments are drawn from the bounded
\* sets, and the call is the only step
\* ------------------------------------------------------------------------

GatherInputs ==
  {[df |-> d, thresholds |-> t] :
     d \in SeqsUpTo(GatherPrices, MaxSeriesLen), t \in SeqsUpTo(Factors, MaxFactors)}

InitGather ==
  /\ stateFile = EmptyDict
  /\ dashboard = NoPage
  /\ outbox = <<>>
  /\ pc = "idle"
  /\ idx = 1
  /\ state = EmptyDict
  /\ results = <<>>
  /\ crossed_today = <<>>
  /\ err = "none"
  /\ digest = "none"
  /\ warned = {}
  /\ tracking = FALSE
  /\ episode = EmptyDict
  /\ closed = {}
  /\ begun = {}
  /\ g_in \in GatherInputs
  /\ g_out = Pending

GatherCall ==
  /\ g_out = Pending
  /\ g_out' = gather_ticker_status(g_in.df, g_in.thresholds)
  /\ UNCHANGED <<g_in, runVars, histVars>>

SpecGather == InitGather /\ [][GatherCall]_vars

\* ------------------------------------------------------------------------
\* Properties of main() (under Spec)
\* ------------------------------------------------------------------------

\* the for loop is over and no exception has ended the run
PastLoop == pc \in {"save", "dashboard", "alert", "digest", "done"}

\* save_state has returned
Saved == pc \in {"dashboard", "alert", "digest", "done"}

\* docs/index.html has been written
Written == pc \in {"alert", "digest", "done"}

WatchSymbols == [k \in 1..Len(WATCHLIST) |-> WATCHLIST[k].symbol]

ItemOf(symbol) ==
  WATCHLIST[CHOOSE k \in 1..Len(WATCHLIST) : WATCHLIST[k].symbol = symbol]

\* the bucket a dict holds for a symbol: <<bucket>>, or <<>> when it has none
BucketOf(d, symbol) == IF symbol \in DOMAIN d THEN <<d[symbol]>> ELSE <<>>

\* the status a dict holds for a label of a symbol, "absent" when none
StatusIn(d, symbol, label) ==
  IF symbol \in DOMAIN d THEN Get(d[symbol], label, "absent") ELSE "absent"

\* the crossing events of the run that name the pair
EventCount(symbol, label) ==
  Cardinality({k \in 1..Len(crossed_today) :
                 /\ crossed_today[k].symbol = symbol
                 /\ crossed_today[k].label = label})

AlertsIn(box) == {k \in 1..Len(box) : box[k].kind = "alert"}

\* state.json and docs/index.html hold what the run computed
Committed ==
  /\ stateFile = state
  /\ dashboard = Page(compose_dashboard_html(results))

\* C3: a None from gather_ticker_status skips only that symbol.  The loop
\* visits every watchlist item; the results are the visited symbols that got
\* no warning, in watchlist order; each of them has had the crossing logic
\* applied to the bucket that was loaded for it; and the run goes on to save
\* the state, write the dashboard from these results, send the alert when
\* there are crossings and attempt the digest.
C3_NoneSkipsOnlyThatSymbol ==
  /\ (pc = "loop" \/ PastLoop) =>
       /\ [k \in 1..Len(results) |-> results[k].symbol]
            = SelectSeq(SubSeq(WatchSymbols, 1, idx - 1),
                        LAMBDA s : s \notin warned)
       /\ \A k \in 1..Len(results) : results[k].symbol \in DOMAIN state
  /\ PastLoop => idx = Len(WATCHLIST) + 1
  /\ pc \in {"loop", "save"} =>
       \A k \in 1..Len(results) :
         LET symbol == results[k].symbol
         IN  state[symbol]
               = CrossingLogic(ItemOf(symbol),
                               results[k].status.threshold_rows, 1,
                               Get(stateFile, symbol, EmptyDict), <<>>).bucket
  /\ Saved => stateFile = state
  /\ Written => dashboard = Page(compose_dashboard_html(results))
  /\ (pc \in {"digest", "done"} /\ crossed_today # <<>>) =>
       outbox[1] = AlertEmail(crossed_today)
  /\ pc = "done" => digest \in {"sent", "failed"}

\* a finished run that skipped the second watchlist item, evaluated the
\* other three and alerted on a crossing of the third
C3_SkippedSecondAlertedThird ==
  /\ pc = "done"
  /\ warned = {WATCHLIST[2].symbol}
  /\ Len(results) = Len(WATCHLIST) - 1
  /\ \E k \in 1..Len(crossed_today) :
       crossed_today[k].symbol = WATCHLIST[3].symbol
  /\ AlertsIn(outbox) # {}
  /\ digest = "sent"

\* C4: an exception while the digest is composed or sent is caught in
\* main(): the run ends normally, and when the digest is attempted the state
\* file is saved and the dashboard written, so they hold the same contents
\* whether the digest is accepted or fails.
C4_DigestFailureContained ==
  /\ pc = "digest" => Committed
  /\ digest # "none" => (pc = "done" /\ err = "none" /\ Committed)

\* a run with a crossing whose digest failed
C4_DigestFailedAfterCrossing ==
  /\ pc = "done"
  /\ digest = "failed"
  /\ crossed_today # <<>>
  /\ stateFile # EmptyDict

\* C5: a download that raises for one symbol does not end the run; only a
\* cross-cutting error (a missing secret, the mail transport failing for the
\* crossing alert) does.
C5_OnlyAlertErrorsEndRun ==
  pc = "aborted" => err = "alert"

C9_SavedSentIffHit ==
  Saved =>
    \A k \in 1..Len(results) :
      \A j \in 1..Len(results[k].status.threshold_rows) :
        LET tr == results[k].status.threshold_rows[j]
            st == StatusIn(stateFile, results[k].symbol, tr.label)
        IN  /\ results[k].symbol \in DOMAIN stateFile
            /\ (st = "sent") <=> tr.hit
            /\ ~tr.hit => st \in {"armed", "absent"}

\* a finished run in which the first symbol's first threshold is hit and
\* saved "sent" while its second, not hit, is saved "armed"
C9_SentAndRearmed ==
  /\ pc = "done"
  /\ Len(results) >= 1
  /\ results[1].symbol = WATCHLIST[1].symbol
  /\ results[1].status.threshold_rows[1].hit
  /\ ~results[1].status.threshold_rows[2].hit
  /\ StatusIn(stateFile, WATCHLIST[1].symbol, LabelTab[85]) = "sent"
  /\ StatusIn(stateFile, WATCHLIST[1].symbol, LabelTab[80]) = "armed"

\* C10: in a run, a symbol that yielded no data keeps its bucket: no step
\* changes the bucket state.json holds for it, the bucket in memory is the
\* one the file holds (or none in both), and no crossing event names it.
C10_NoDataKeepsBucket ==
  [][\A s \in warned' :
       /\ BucketOf(stateFile', s) = BucketOf(stateFile, s)
       /\ pc' # "aborted" => BucketOf(state', s) = BucketOf(stateFile, s)
       /\ \A k \in 1..Len(crossed_today') : crossed_today'[k].symbol # s]_vars

\* a finished run that skipped a symbol whose bucket holds a "sent" label
C10_SentKeptThroughOutage ==
  /\ pc = "done"
  /\ \E s \in warned :
       /\ s \in DOMAIN stateFile
       /\ \E l \in DOMAIN stateFile[s] : stateFile[s][l] = "sent"

\* ------------------------------------------------------------------------
\* Properties of the crossing episodes (under SpecHist, SpecHistFetchOk)
\* ------------------------------------------------------------------------

\* C1: until save_state, for every symbol evaluated in the run and every
\* threshold row of it, the run holds one crossing event for the pair when
\* the row is hit and the loaded status is not "sent", and none otherwise;
\* a row that is not hit leaves its label "armed" (or absent); and a pair
\* whose threshold is hit in this run and was not hit when it was last
\* evaluated (the first cross, or the re-cross after a recovery) has exactly
\* one crossing event.
C1_EventIffHitAndNotSent ==
  pc \in {"loop", "save"} =>
    /\ \A k \in 1..Len(results) :
         \A j \in 1..Len(results[k].status.threshold_rows) :
           LET symbol == results[k].symbol
               tr     == results[k].status.threshold_rows[j]
               prev   == Get(Get(stateFile, symbol, EmptyDict), tr.label, "armed")
           IN  /\ EventCount(symbol, tr.label)
                    = IF tr.hit /\ prev # "sent" THEN 1 ELSE 0
               /\ ~tr.hit => Get(state[symbol], tr.label, "armed") = "armed"
    /\ \A p \in begun : EventCount(p[1], p[2]) = 1

\* C2: every crossing episode gets exactly one accepted crossing alert
\* naming its pair, whatever send_email does: an episode that has ended got
\* one, and no episode gets a second.
C2_OneAlertPerEpisode ==
  /\ \A c \in closed : c[3] = 1
  /\ \A p \in DOMAIN episode : episode[p] <= 1

\* ------------------------------------------------------------------------
\* Properties of gather_ticker_status (under SpecGather)
\* ------------------------------------------------------------------------

\* the call was made on a non-empty history
Gathered == g_out # Pending /\ g_in.df # <<>>

\* C6: gather_ticker_status returns one threshold row per factor, in the
\* order of the factors it was given; each row's level is the float product
\* ath_close * factor (Level, as tabulated), where ath_close is the highest
\* close; its hit flag is true exactly when the last close is at most the
\* level, so a last close equal to the level is a hit; an all-time high of
\* 100 and a last close of 84 with the factors 0.85, 0.80 give the levels 85
\* (hit) and 80 (not hit).
C6_RowPerFactorInOrder ==
  Gathered =>
    LET rows == g_out.threshold_rows
        ath  == SeqMax(g_in.df)
        last == g_in.df[Len(g_in.df)]
    IN  /\ g_out.ath_close = ath
        /\ g_out.last_close = last
        /\ Len(rows) = Len(g_in.thresholds)
        /\ \A k \in 1..Len(rows) :
             /\ rows[k].factor = g_in.thresholds[k]
             /\ rows[k].level = LevelTab[ath, rows[k].factor]
             /\ rows[k].hit <=> FLe(FloatOfInt(last), rows[k].level)
             /\ rows[k].level = FloatOfInt(last) => rows[k].hit
        /\ (g_in.df = <<100, 84>> /\ g_in.thresholds = <<85, 80>>) =>
             /\ rows[1].level = FloatOfInt(85) /\ rows[1].hit
             /\ rows[2].level = FloatOfInt(80) /\ ~rows[2].hit

\* a call on factors in ascending order (0.80 before 0.85) whose last close,
\* 85, equals the level of the second row: that row is a hit, the first not
C6_TieInUnsortedRows ==
  /\ Gathered
  /\ g_in.df = <<100, 85>>
  /\ g_in.thresholds = <<80, 85>>
  /\ g_out.threshold_rows[2].level = FloatOfInt(85)
  /\ g_out.threshold_rows[2].hit
  /\ ~g_out.threshold_rows[1].hit

\* C7: the label of each configured factor f is floor((1 - f) * 100)
\* followed by "%": 0.85 gives "15%", 0.80 gives "20%", 0.75 gives "25%" and
\* 0.70 gives "30%" (with f in hundredths, that is 100 - f).
C7_LabelIsWholePercent ==
  Gathered =>
    \A k \in 1..Len(g_out.threshold_rows) :
      LET tr == g_out.threshold_rows[k]
      IN  tr.factor \in ConfiguredFactors =>
            tr.label = ToString(100 - tr.factor) \o "%"

====
